---- MODULE Spec2Model ----
(***************************************************************************)
(* Archivea Reader API (backend/app/main.py): upload of PDF / JPG / ZIP-of- *)
(* JPG documents, extraction of a ZIP's JPG entries into a page directory,  *)
(* and the page listing / page content read paths.                          *)
(*                                                                          *)
(* File names are modelled as sequences of character codes, so that        *)
(* lower(), Path.name, Path.suffix, the "06d" format and Python's string    *)
(* ordering are computed rather than assumed.  Content types are only ever  *)
(* compared for equality and are plain strings.                             *)
(***************************************************************************)
EXTENDS Integers, Sequences, FiniteSets, TLC

(* ------------------------------ bounds -------------------------------- *)

\* upload requests issued in one behaviour
MaxUploads == 2
\* upload_document calls of the one-call-at-a-time specification
MaxCalls == 1
\* entries of an uploaded archive
MaxEntries == 2

(* ------------------------- program constants -------------------------- *)

\* minimum field width of the page name format "{index:06d}.jpg"
PadWidth == 6

ZIP_MIME_TYPES == {"application/zip", "application/x-zip-compressed", "multipart/x-zip"}

\* ".jpg", ".jpeg", ".zip"
DotJpg == <<46, 106, 112, 103>>
DotJpeg == <<46, 106, 112, 101, 103>>
DotZip == <<46, 122, 105, 112>>

(* --------------------------- string helpers --------------------------- *)

\* str.lower() on one ASCII character
LowerChar(c) == IF c \in 65..90 THEN c + 32 ELSE c

\* str.lower()
Lower(s) == [i \in 1..Len(s) |-> LowerChar(s[i])]

\* Python's str "<": lexicographic by code point, a proper prefix is smaller
LexLess(a, b) ==
    \/ \E i \in 1..Len(a) :
          /\ i <= Len(b)
          /\ a[i] < b[i]
          /\ \A j \in 1..(i - 1) : a[j] = b[j]
    \/ /\ Len(a) < Len(b)
       /\ \A j \in 1..Len(a) : a[j] = b[j]

\* position of the last occurrence of character c in s, 0 when absent (str.rfind + 1)
LastIndexOf(s, c) ==
    IF \E i \in 1..Len(s) : s[i] = c
    THEN CHOOSE i \in 1..Len(s) : s[i] = c /\ \A j \in (i + 1)..Len(s) : s[j] # c
    ELSE 0

RECURSIVE StripSlashes(_)
\* pathlib drops trailing separators when it parses a path
StripSlashes(s) ==
    IF Len(s) > 0 /\ s[Len(s)] = 47 THEN StripSlashes(SubSeq(s, 1, Len(s) - 1)) ELSE s

\* Path(s).name: the last component of the path
PathName(s) ==
    LET t == StripSlashes(s)
    IN  SubSeq(t, LastIndexOf(t, 47) + 1, Len(t))

\* Path(s).suffix: from the last dot of the name, unless the dot is first or last
PathSuffix(s) ==
    LET n == PathName(s)
        i == LastIndexOf(n, 46)
    IN  IF 1 < i /\ i < Len(n) THEN SubSeq(n, i, Len(n)) ELSE <<>>

RECURSIVE Digits(_)
\* decimal digits of a natural number
Digits(n) == IF n < 10 THEN <<48 + n>> ELSE Digits(n \div 10) \o <<48 + (n % 10)>>

RECURSIVE ZeroPad(_, _)
\* pad on the left with "0" up to width w; longer strings are left alone
ZeroPad(s, w) == IF Len(s) >= w THEN s ELSE ZeroPad(<<48>> \o s, w)

(* ---------------------------- the extractor --------------------------- *)

\* page_name = f"{index:06d}.jpg"
page_name(index) == ZeroPad(Digits(index), PadWidth) \o DotJpg

\* ZipInfo.is_dir(): the entry's name ends with "/"
is_dir(filename) == Len(filename) > 0 /\ filename[Len(filename)] = 47

\* archive.infolist(): the entries in archive order; ord stands for the entry's bytes
infolist(archive) == [i \in 1..Len(archive) |-> [filename |-> archive[i], ord |-> i]]

\* a filter that compares the suffix without lower()
IsCandidateCaseSensitive(info) ==
    /\ ~is_dir(info.filename)
    /\ PathSuffix(info.filename) \in {DotJpg, DotJpeg}

\* the filter of the list comprehension
IsCandidate(info) ==
    /\ ~is_dir(info.filename)
    /\ Lower(PathSuffix(info.filename)) \in {DotJpg, DotJpeg}

candidates(archive) == SelectSeq(infolist(archive), IsCandidate)

\* the emptiness check left out
NoCandidatesNever(c) == FALSE

\* "if not candidates"
NoCandidates(c) == c = <<>>

\* a sort key without lower()
SortKeyCaseSensitive(info) == PathName(info.filename)

\* key=lambda item: Path(item.filename).name.lower()
SortKey(info) == Lower(PathName(info.filename))

RECURSIVE InsertSorted(_, _)
\* put x behind every element whose key is not greater than x's
InsertSorted(x, s) ==
    IF s = <<>> THEN <<x>>
    ELSE IF LexLess(SortKey(x), SortKey(Head(s))) THEN <<x>> \o s
    ELSE <<Head(s)>> \o InsertSorted(x, Tail(s))

RECURSIVE sorted_by_key(_)
\* sorted(candidates, key=...): ascending and stable
sorted_by_key(s) ==
    IF s = <<>> THEN <<>>
    ELSE InsertSorted(s[Len(s)], sorted_by_key(SubSeq(s, 1, Len(s) - 1)))

(* --------------------------- upload classifier ------------------------ *)

\* is_zip_upload(file)
is_zip_upload(content_type, filename) ==
    content_type \in ZIP_MIME_TYPES \/ Lower(PathSuffix(filename)) = DotZip

\* a guard whose set of accepted types has grown by "text/plain"
UnsupportedTextAllowed(content_type, filename) ==
    /\ content_type \notin ({"application/pdf", "image/jpeg", "text/plain"} \cup ZIP_MIME_TYPES)
    /\ ~is_zip_upload(content_type, filename)

\* the guard of the 400 at the top of upload_document
Unsupported(content_type, filename) ==
    /\ content_type \notin ({"application/pdf", "image/jpeg"} \cup ZIP_MIME_TYPES)
    /\ ~is_zip_upload(content_type, filename)

(* -------------------------------- inputs ------------------------------- *)

\* entry names of uploaded archives:
\* "B.JPG", "a.jpg", "z/a.JPEG", "n.txt", "p.jpg/" (a directory entry)
EntryNames ==
    { <<66, 46, 74, 80, 71>>,
      <<97, 46, 106, 112, 103>>,
      <<122, 47, 97, 46, 74, 80, 69, 71>>,
      <<110, 46, 116, 120, 116>>,
      <<112, 46, 106, 112, 103, 47>> }

\* the bytes of an upload: a ZIP container with its entries, or anything else
NotAZip == [zip |-> FALSE, entries |-> <<>>]

Archives ==
    { [zip |-> TRUE, entries |-> e] :
        e \in UNION { [1..n -> EntryNames] : n \in 0..MaxEntries } }

ContentTypes ==
    {"application/pdf", "image/jpeg", "application/zip", "multipart/x-zip", "text/plain"}

\* upload file names: "b.ZIP", "c.pdf" and none
UploadNames == { <<98, 46, 90, 73, 80>>, <<99, 46, 112, 100, 102>>, <<>> }

\* an UploadFile; the bytes matter only when they are parsed, i.e. for ZIP uploads
UploadFiles ==
    { [content_type |-> t, filename |-> n, content |-> c] :
        t \in ContentTypes, n \in UploadNames, c \in Archives \cup {NotAZip} }

AllUploads ==
    { f \in UploadFiles :
        is_zip_upload(f.content_type, f.filename) \/ f.content = NotAZip }

\* the uploads of the interleaved specifications
FewUploads ==
    { f \in AllUploads :
        /\ f.content_type \in {"application/zip", "application/pdf"}
        /\ f.filename = <<>>
        /\ f.content \in
             { NotAZip,
               [zip |-> TRUE, entries |-> << <<110, 46, 116, 120, 116>> >>],
               [zip |-> TRUE, entries |-> << <<66, 46, 74, 80, 71>>, <<97, 46, 106, 112, 103>> >>] } }

NoFile == [content_type |-> "", filename |-> <<>>, content |-> NotAZip]

Requests == 1..MaxUploads

(* -------------------------------- state ------------------------------- *)

VARIABLES
    pc,              \* per upload request: where upload_document stands
    file,            \* per request: the UploadFile being handled
    sorted_members,  \* per request: extract_zip_jpgs' sorted entry list
    index,           \* per request: the loop index of extract_zip_jpgs
    original_names,  \* per request: the list extract_zip_jpgs builds
    raised,          \* per request: status of an exception in flight, 0 when none
    response,        \* per request: the HTTP status returned, 0 while running
    staged,          \* per request: the staging archive was written in full
    files,           \* files directly under UPLOAD_DIR: path -> "full" | "partial"
    dirs,            \* directories under UPLOAD_DIR
    pageFiles,       \* files inside those directories: [dir, name, data]
    db,              \* the Document table, in id order
    resp,            \* the last response of a read endpoint
    probe            \* two pages of one extracted document and how a listing orders them

vars ==
    << pc, file, sorted_members, index, original_names, raised, response, staged,
       files, dirs, pageFiles, db, resp, probe >>

locals == << file, sorted_members, index, original_names, raised >>
storage == << files, dirs, pageFiles, db >>
uploads == << pc, locals, response, staged >>
reads == << resp, probe >>

\* uuid4().hex of request r is r itself: generated names are distinct
ZipPath(r) == <<r, ".zip">>
PagesDir(r) == <<r, "">>
TargetPath(r, ext) == <<r, ext>>

NoProbe == [count |-> 0, i |-> 0, j |-> 0, listed |-> "unknown"]

NoResp == [op |-> "none", id |-> 0, page_index |-> 0, status |-> 0, body |-> <<>>]

Init ==
    /\ pc = [r \in Requests |-> "idle"]
    /\ file = [r \in Requests |-> NoFile]
    /\ sorted_members = [r \in Requests |-> <<>>]
    /\ index = [r \in Requests |-> 0]
    /\ original_names = [r \in Requests |-> <<>>]
    /\ raised = [r \in Requests |-> 0]
    /\ response = [r \in Requests |-> 0]
    /\ staged = [r \in Requests |-> FALSE]
    /\ files = << >>
    /\ dirs = {}
    /\ pageFiles = {}
    /\ db = << >>
    /\ resp = NoResp
    /\ probe = NoProbe

(* --------------------------- upload_document -------------------------- *)

\* the handler returns (or its exception reaches the client): locals are gone
Return(r, status) ==
    /\ pc' = [pc EXCEPT ![r] = "done"]
    /\ response' = [response EXCEPT ![r] = status]
    /\ file' = [file EXCEPT ![r] = NoFile]
    /\ sorted_members' = [sorted_members EXCEPT ![r] = <<>>]
    /\ index' = [index EXCEPT ![r] = 0]
    /\ original_names' = [original_names EXCEPT ![r] = <<>>]
    /\ raised' = [raised EXCEPT ![r] = 0]

\* path.write_bytes(content): the file is written, or the open fails and nothing is
\* there, or the write fails and a truncated file is left
WriteBytes(path, outcome) ==
    IF outcome = "open_failed" THEN files
    ELSE [p \in DOMAIN files \cup {path} |->
            IF p = path THEN (IF outcome = "ok" THEN "full" ELSE "partial") ELSE files[p]]

WriteOutcomes == {"ok", "open_failed", "write_failed"}

\* the exception of the try block swallowed
RaisesNever(status) == FALSE

\* an exception leaves the try block
Raises(status) == status # 0

\* the content-type check, uuid4() and "await file.read()"
Begin(r, Uploads) ==
    /\ pc[r] = "idle"
    /\ r > 1 => pc[r - 1] # "idle"
    /\ \E f \in Uploads :
         /\ file' = [file EXCEPT ![r] = f]
         /\ IF Unsupported(f.content_type, f.filename)
            THEN /\ pc' = [pc EXCEPT ![r] = "rejected"]
                 /\ response' = [response EXCEPT ![r] = 400]
            ELSE /\ pc' = [pc EXCEPT ![r] =
                        IF is_zip_upload(f.content_type, f.filename)
                        THEN "write_zip" ELSE "write_file"]
                 /\ UNCHANGED response
    /\ UNCHANGED << sorted_members, index, original_names, raised, staged, storage, reads >>

\* zip_path.write_bytes(content)
WriteZip(r) ==
    /\ pc[r] = "write_zip"
    /\ \E outcome \in WriteOutcomes :
         /\ files' = WriteBytes(ZipPath(r), outcome)
         /\ IF outcome = "ok"
            THEN /\ pc' = [pc EXCEPT ![r] = "mkdir"]
                 /\ staged' = [staged EXCEPT ![r] = TRUE]
                 /\ UNCHANGED << locals, response >>
            ELSE /\ Return(r, 500)
                 /\ UNCHANGED staged
    /\ UNCHANGED << dirs, pageFiles, db, reads >>

\* pages_dir.mkdir(parents=True, exist_ok=True), which stands before the try block
Mkdir(r) ==
    /\ pc[r] = "mkdir"
    /\ \E ok \in BOOLEAN :
         IF ok
         THEN /\ dirs' = dirs \cup {PagesDir(r)}
              /\ pc' = [pc EXCEPT ![r] = "open_zip"]
              /\ UNCHANGED << locals, response >>
         ELSE /\ Return(r, 500)
              /\ UNCHANGED dirs
    /\ UNCHANGED << staged, files, pageFiles, db, reads >>

\* extract_zip_jpgs up to the loop: ZipFile(zip_path), the filter, the check, the sort
OpenZip(r) ==
    /\ pc[r] = "open_zip"
    /\ LET content == file[r].content
           found == candidates(content.entries)
       IN  IF ~content.zip
           THEN /\ raised' = [raised EXCEPT ![r] = 500]
                /\ pc' = [pc EXCEPT ![r] = "finally"]
                /\ UNCHANGED << sorted_members, index, original_names >>
           ELSE IF NoCandidates(found)
           THEN /\ raised' = [raised EXCEPT ![r] = 400]
                /\ pc' = [pc EXCEPT ![r] = "finally"]
                /\ UNCHANGED << sorted_members, index, original_names >>
           ELSE /\ sorted_members' = [sorted_members EXCEPT ![r] = sorted_by_key(found)]
                /\ index' = [index EXCEPT ![r] = 0]
                /\ original_names' = [original_names EXCEPT ![r] = <<>>]
                /\ pc' = [pc EXCEPT ![r] =
                        IF sorted_by_key(found) = <<>> THEN "finally" ELSE "extract"]
                /\ UNCHANGED raised
    /\ UNCHANGED << file, response, staged, storage, reads >>

\* target.open("wb") truncates or creates the file, sink.write fills it
WritePageFile(dir, name, outcome, data) ==
    IF outcome = "open_failed" THEN pageFiles
    ELSE { f \in pageFiles : ~(f.dir = dir /\ f.name = name) }
         \cup { [dir |-> dir, name |-> name, data |-> IF outcome = "ok" THEN data ELSE 0] }

\* one iteration of the loop of extract_zip_jpgs; after the last one it returns
WritePage(r) ==
    /\ pc[r] = "extract"
    /\ index[r] < Len(sorted_members[r])
    /\ LET member == sorted_members[r][index[r] + 1]
       IN  \E outcome \in WriteOutcomes :
             /\ pageFiles' =
                  WritePageFile(PagesDir(r), page_name(index[r]), outcome, member.ord)
             /\ IF outcome = "ok"
                THEN /\ original_names' =
                          [original_names EXCEPT ![r] = Append(@, PathName(member.filename))]
                     /\ index' = [index EXCEPT ![r] = @ + 1]
                     /\ pc' = [pc EXCEPT ![r] =
                             IF index[r] + 1 = Len(sorted_members[r])
                             THEN "finally" ELSE "extract"]
                     /\ UNCHANGED raised
                ELSE /\ raised' = [raised EXCEPT ![r] = 500]
                     /\ pc' = [pc EXCEPT ![r] = "finally"]
                     /\ UNCHANGED << original_names, index >>
    /\ UNCHANGED << file, sorted_members, response, staged, files, dirs, db, reads >>

\* finally: zip_path.unlink(missing_ok=True); then the exception, if any, goes on
Finally(r) ==
    /\ pc[r] = "finally"
    /\ files' = [p \in DOMAIN files \ {ZipPath(r)} |-> files[p]]
    /\ IF Raises(raised[r])
       THEN Return(r, raised[r])
       ELSE /\ pc' = [pc EXCEPT ![r] = "commit"]
            /\ UNCHANGED << locals, response >>
    /\ UNCHANGED << staged, dirs, pageFiles, db, reads >>

\* the extension of the PDF and JPG branches
TargetSuffix(content_type) == IF content_type = "application/pdf" THEN ".pdf" ELSE ".jpg"

\* target.write_bytes(content) of the PDF and JPG branches
WriteFile(r) ==
    /\ pc[r] = "write_file"
    /\ \E outcome \in WriteOutcomes :
         /\ files' = WriteBytes(TargetPath(r, TargetSuffix(file[r].content_type)), outcome)
         /\ IF outcome = "ok"
            THEN /\ pc' = [pc EXCEPT ![r] = "commit"]
                 /\ UNCHANGED << locals, response >>
            ELSE Return(r, 500)
    /\ UNCHANGED << staged, dirs, pageFiles, db, reads >>

\* the PDF and JPG branches forget "stored_name = target.name"
NewDocumentBareName(r, id) ==
    LET f == file[r]
    IN  [id |-> id,
         mime_type |-> IF is_zip_upload(f.content_type, f.filename) THEN "application/zip"
                       ELSE IF f.content_type = "application/pdf" THEN "application/pdf"
                       ELSE "image/jpeg",
         extension |-> IF is_zip_upload(f.content_type, f.filename) THEN ".zip"
                       ELSE IF f.content_type = "application/pdf" THEN ".pdf"
                       ELSE ".jpg",
         stored_name |-> PagesDir(r)]

\* Document(title, mime_type, extension, stored_name) as the three branches set it
NewDocument(r, id) ==
    LET f == file[r]
    IN  IF is_zip_upload(f.content_type, f.filename)
        THEN [id |-> id, mime_type |-> "application/zip", extension |-> ".zip",
              stored_name |-> PagesDir(r)]
        ELSE IF f.content_type = "application/pdf"
        THEN [id |-> id, mime_type |-> "application/pdf", extension |-> ".pdf",
              stored_name |-> TargetPath(r, ".pdf")]
        ELSE [id |-> id, mime_type |-> "image/jpeg", extension |-> ".jpg",
              stored_name |-> TargetPath(r, ".jpg")]

\* session.add(doc); session.commit(); session.refresh(doc); return
Commit(r) ==
    /\ pc[r] = "commit"
    /\ \E ok \in BOOLEAN :
         IF ok
         THEN /\ db' = Append(db, NewDocument(r, Len(db) + 1))
              /\ Return(r, 200)
         ELSE /\ Return(r, 500)
              /\ UNCHANGED db
    /\ UNCHANGED << staged, files, dirs, pageFiles, reads >>

InFlight(r) == pc[r] \notin {"idle", "done", "rejected"}

UploadStep(r) ==
    \/ WriteZip(r)
    \/ Mkdir(r)
    \/ OpenZip(r)
    \/ WritePage(r)
    \/ Finally(r)
    \/ WriteFile(r)
    \/ Commit(r)

\* one upload_document call at a time, over every upload
Next ==
    \E r \in Requests :
        \/ (r <= MaxCalls /\ \A q \in Requests : ~InFlight(q)) /\ Begin(r, AllUploads)
        \/ UploadStep(r)

Spec == Init /\ [][Next]_vars

(* ---------------------------- read endpoints -------------------------- *)

\* s ends with suffix t
EndsWith(s, t) == Len(s) >= Len(t) /\ SubSeq(s, Len(s) - Len(t) + 1, Len(s)) = t

\* pages_dir.glob("*.jpg"): nothing when the directory is absent
GlobJpg(dir) ==
    IF dir \in dirs
    THEN { f \in pageFiles : f.dir = dir /\ EndsWith(f.name, DotJpg) }
    ELSE {}

\* the order of sorted(..., key=lambda item: item.name)
ListedBefore(a, b) == LexLess(a, b)

RECURSIVE SortedPages(_)
\* sorted(pages, key=lambda item: item.name); names in one directory are distinct
SortedPages(S) ==
    IF S = {} THEN <<>>
    ELSE LET first == CHOOSE f \in S : \A g \in S \ {f} : ListedBefore(f.name, g.name)
         IN  <<first>> \o SortedPages(S \ {first})

\* session.get(Document, document_id) found a row
DocExists(document_id) == document_id \in 1..Len(db)

\* doc.mime_type != "application/zip"
NotZipDoc(doc) == doc.mime_type # "application/zip"

\* the directory check left out
PagesDirMissingNever(dir) == FALSE

\* not pages_dir.exists() or not pages_dir.is_dir()
PagesDirMissing(dir) == dir \notin dirs

\* the range check without its lower bound
PageOutOfRangeNoNegative(page_index, n) == page_index >= n

\* page_index < 0 or page_index >= len(pages)
PageOutOfRange(page_index, n) == page_index < 0 \/ page_index >= n

\* Python's list[i]: negative indices count from the end, others raise IndexError
InList(list, i) == (0 - Len(list)) <= i /\ i < Len(list)
ListItem(list, i) == IF i < 0 THEN list[Len(list) + i + 1] ELSE list[i + 1]

\* the response of list_zip_pages(document_id)
ListZipPages(document_id) ==
    LET base == [op |-> "list_zip_pages", id |-> document_id, page_index |-> 0,
                 status |-> 200, body |-> <<>>]
    IN  IF ~DocExists(document_id) THEN [base EXCEPT !.status = 404]
        ELSE IF NotZipDoc(db[document_id]) THEN [base EXCEPT !.status = 400]
        ELSE IF PagesDirMissing(db[document_id].stored_name) THEN [base EXCEPT !.status = 404]
        ELSE LET pages == SortedPages(GlobJpg(db[document_id].stored_name))
             IN  [base EXCEPT !.body =
                     [k \in 1..Len(pages) |-> [index |-> k - 1, filename |-> pages[k].name]]]

\* the response of get_zip_page_content(document_id, page_index)
GetZipPageContent(document_id, page_index) ==
    LET base == [op |-> "get_zip_page_content", id |-> document_id, page_index |-> page_index,
                 status |-> 200, body |-> <<>>]
    IN  IF ~DocExists(document_id) THEN [base EXCEPT !.status = 404]
        ELSE IF NotZipDoc(db[document_id]) THEN [base EXCEPT !.status = 400]
        ELSE LET pages == SortedPages(GlobJpg(db[document_id].stored_name))
             IN  IF PageOutOfRange(page_index, Len(pages))
                 THEN [base EXCEPT !.status = 404]
                 ELSE IF ~InList(pages, page_index) THEN [base EXCEPT !.status = 500]
                 ELSE [base EXCEPT !.body = <<ListItem(pages, page_index)>>]

DocIds == 1..MaxUploads
PageIndexes == (0 - 1)..(MaxEntries + 1)

\* resp holds the response of the read being served until the client has it
list_zip_pages ==
    /\ resp = NoResp
    /\ \E document_id \in DocIds : resp' = ListZipPages(document_id)
    /\ UNCHANGED << uploads, storage, probe >>

get_zip_page_content ==
    /\ resp = NoResp
    /\ \E document_id \in DocIds, page_index \in PageIndexes :
         resp' = GetZipPageContent(document_id, page_index)
    /\ UNCHANGED << uploads, storage, probe >>

\* the read handler has returned and its response is delivered
Respond ==
    /\ resp # NoResp
    /\ resp' = NoResp
    /\ UNCHANGED << uploads, storage, probe >>

\* upload_document calls interleaved step by step with each other and with the reads
ConcNext ==
    \/ \E r \in Requests : Begin(r, FewUploads) \/ UploadStep(r)
    \/ list_zip_pages
    \/ get_zip_page_content
    \/ Respond

ConcSpec == Init /\ [][ConcNext]_vars

(* ----------------- storage changed from outside the program ----------- *)

\* an administrator empties, or removes, the page directory of a stored document
RemovePages ==
    /\ \E r \in Requests, keepDir \in BOOLEAN :
         /\ pc[r] = "done"
         /\ PagesDir(r) \in dirs
         /\ pageFiles' = { f \in pageFiles : f.dir # PagesDir(r) }
         /\ dirs' = IF keepDir THEN dirs ELSE dirs \ {PagesDir(r)}
    /\ UNCHANGED << uploads, files, db, reads >>

\* uploads one call at a time, reads at any moment, and the administrator
EnvNext ==
    \/ \E r \in Requests :
          \/ (\A q \in Requests : ~InFlight(q)) /\ Begin(r, FewUploads)
          \/ UploadStep(r)
    \/ list_zip_pages
    \/ get_zip_page_content
    \/ Respond
    \/ RemovePages

EnvSpec == Init /\ [][EnvNext]_vars

(* -------------- the page order of one large extracted document -------- *)

\* numbers of JPG entries of the extracted archive
PageCounts == {1, 2, 3, 11, 101, 100001, 1000000, 1000001}

\* indices of the two pages looked at
ProbeIndexes == {0, 1, 2, 9, 10, 100, 99999, 100000, 100001, 999999, 1000000}

\* extract_zip_jpgs has written pages 0..count-1; i < j are two of them
PadInit ==
    /\ pc = [r \in Requests |-> "idle"]
    /\ file = [r \in Requests |-> NoFile]
    /\ sorted_members = [r \in Requests |-> <<>>]
    /\ index = [r \in Requests |-> 0]
    /\ original_names = [r \in Requests |-> <<>>]
    /\ raised = [r \in Requests |-> 0]
    /\ response = [r \in Requests |-> 0]
    /\ staged = [r \in Requests |-> FALSE]
    /\ files = << >>
    /\ dirs = {}
    /\ pageFiles = {}
    /\ db = << >>
    /\ resp = NoResp
    /\ \E n \in PageCounts, i \in ProbeIndexes, j \in ProbeIndexes :
         /\ i < j
         /\ j < n
         /\ probe = [count |-> n, i |-> i, j |-> j, listed |-> "unknown"]

\* list_zip_pages on that document: which of the two files comes first
ListPair ==
    /\ probe.listed = "unknown"
    /\ probe' = [probe EXCEPT !.listed =
                    IF ListedBefore(page_name(probe.i), page_name(probe.j))
                    THEN "i_first" ELSE "j_first"]
    /\ UNCHANGED << uploads, storage, resp >>

PadSpec == PadInit /\ [][ListPair]_vars

(* ------------------------------ properties ---------------------------- *)

\* "000000.jpg", "000001.jpg", ...: six decimal digits and ".jpg"
SixDigits(i) ==
    << 48 + ((i \div 100000) % 10), 48 + ((i \div 10000) % 10), 48 + ((i \div 1000) % 10),
       48 + ((i \div 100) % 10), 48 + ((i \div 10) % 10), 48 + (i % 10) >> \o DotJpg

\* an entry that is no directory and whose name ends, in any case, with .jpg or .jpeg
IsJpgEntryName(name) ==
    /\ name # <<>>
    /\ name[Len(name)] # 47
    /\ EndsWith(Lower(name), DotJpg) \/ EndsWith(Lower(name), DotJpeg)

\* positions of the JPG entries of an archive
JpgEntries(entries) == { i \in 1..Len(entries) : IsJpgEntryName(entries[i]) }

\* the files of a directory
PagesIn(dir) == { f \in pageFiles : f.dir = dir }

\* extract_zip_jpgs has returned its list to upload_document
ExtractReturned(r) == pc[r] = "finally" /\ raised[r] = 0

\* what request r has put under UPLOAD_DIR or into the table
NothingStored(r) ==
    /\ \A p \in DOMAIN files : p[1] # r
    /\ \A d \in dirs : d[1] # r
    /\ \A f \in pageFiles : f.dir[1] # r
    /\ \A k \in 1..Len(db) : db[k].stored_name[1] # r

\* C1: when extract_zip_jpgs completes on an archive with N >= 1 JPG entries, the
\* output directory holds exactly N files, named 000000.jpg .. (N-1) without gap or
\* duplicate, one per JPG entry (entries with the same basename included), the
\* returned list has length N, and other entries and directories give no file.
C1_OnePagePerJpgEntry ==
    \A r \in Requests :
        ExtractReturned(r) =>
            LET jpgs == JpgEntries(file[r].content.entries)
                N == Cardinality(jpgs)
                written == PagesIn(PagesDir(r))
            IN  /\ N >= 1
                /\ Cardinality(written) = N
                /\ { f.name : f \in written } = { SixDigits(i) : i \in 0..(N - 1) }
                /\ { f.data : f \in written } = jpgs
                /\ Len(original_names[r]) = N

\* an extraction has completed on an archive that also holds an entry that is no JPG
C1_Witness ==
    \E r \in Requests :
        /\ ExtractReturned(r)
        /\ JpgEntries(file[r].content.entries) # {}
        /\ Len(file[r].content.entries) > Cardinality(JpgEntries(file[r].content.entries))

\* the entry whose bytes were written to the page of the given index, as a set
EntryAt(r, i) ==
    { file[r].content.entries[f.data] :
        f \in { g \in PagesIn(PagesDir(r)) : g.name = SixDigits(i) /\ g.data # 0 } }

\* C2: indices follow the ascending order of the lowercased basename (not the full
\* path): for pages i < j the lowercased basename of i's entry is not greater than
\* that of j's; the returned list holds the original basenames in index order; and
\* the archive (B.JPG, a.jpg) gives a.jpg index 0 and B.JPG index 1.
C2_IndexOrderIsLowercasedBasename ==
    \A r \in Requests :
        ExtractReturned(r) =>
            LET N == Len(original_names[r])
            IN  /\ \A i \in 0..(N - 1), j \in 0..(N - 1) :
                     i < j =>
                        \A a \in EntryAt(r, i), b \in EntryAt(r, j) :
                            ~LexLess(Lower(PathName(b)), Lower(PathName(a)))
                /\ \A i \in 0..(N - 1) :
                     /\ EntryAt(r, i) # {}
                     /\ \A a \in EntryAt(r, i) : original_names[r][i + 1] = PathName(a)
                /\ file[r].content.entries = << <<66, 46, 74, 80, 71>>, <<97, 46, 106, 112, 103>> >>
                     => /\ original_names[r] = << <<97, 46, 106, 112, 103>>, <<66, 46, 74, 80, 71>> >>
                        /\ EntryAt(r, 0) = { <<97, 46, 106, 112, 103>> }
                        /\ EntryAt(r, 1) = { <<66, 46, 74, 80, 71>> }

\* the archive (B.JPG, a.jpg) has been extracted
C2_Witness ==
    \E r \in Requests :
        /\ ExtractReturned(r)
        /\ file[r].content.entries = << <<66, 46, 74, 80, 71>>, <<97, 46, 106, 112, 103>> >>

\* C3: on an archive without any JPG entry extract_zip_jpgs raises the 400 and the
\* output directory holds no file, as before the call; the call that answers 400
\* leaves no page file behind.
C3_NoJpgFailsAndWritesNothing ==
    \A r \in Requests :
        /\ ( /\ pc[r] = "finally"
             /\ file[r].content.zip
             /\ JpgEntries(file[r].content.entries) = {} )
           => (raised[r] = 400 /\ PagesIn(PagesDir(r)) = {})
        /\ (pc[r] = "done" /\ response[r] = 400) => PagesIn(PagesDir(r)) = {}

\* extraction has failed on an archive that has entries, none of them a JPG
C3_Witness ==
    \E r \in Requests :
        /\ pc[r] = "finally"
        /\ raised[r] = 400
        /\ Len(file[r].content.entries) >= 1
        /\ PagesDir(r) \in dirs

\* C4: a ZIP upload's row is written only after its extraction succeeded: the step
\* that leaves a failed extraction (no JPG entry, no ZIP container, an I/O failure
\* part-way) ends the call with that error and the table as it was, and a call that
\* has answered with an error never has a row.
C4_NoRowForFailedExtraction ==
    [][ \A r \in Requests :
          /\ (pc[r] = "finally" /\ raised[r] # 0 /\ pc'[r] # pc[r])
               => (pc'[r] = "done" /\ response'[r] = raised[r] /\ db' = db)
          /\ response'[r] \in {400, 500}
               => \A k \in 1..Len(db') : db'[k].stored_name[1] # r ]_vars

\* an extraction has failed part-way, with a page on disk, while the table holds a row
C4_Witness ==
    \E r \in Requests :
        /\ pc[r] = "done"
        /\ response[r] = 500
        /\ PagesIn(PagesDir(r)) # {}
        /\ Len(db) >= 1

\* C5: once the staging archive has been written, it is gone when the ZIP upload
\* call returns, on every exit path.
C5_StagingRemovedOnEveryExit ==
    \A r \in Requests :
        (pc[r] = "done" /\ staged[r]) => ZipPath(r) \notin DOMAIN files

\* C6: a listing of an extracted document gives the pages in extraction order: of two
\* pages written for indices i < j, the one of index i is listed first.
C6_ListingFollowsExtractionOrder ==
    probe.listed # "unknown" => probe.listed = "i_first"

\* the number of files of the page directory of document id
PageCount(document_id) == Cardinality(PagesIn(db[document_id].stored_name))

\* a read handler has just answered
Answered(op) ==
    /\ resp = NoResp
    /\ resp' # NoResp
    /\ resp'.op = op

\* C7: get_zip_page_content on a ZIP document with N pages answers 404 for every index
\* outside [0, N) (N itself, negative indices, every index when the directory is
\* absent or empty) and serves the page of that index for 0 <= i < N.
C7_PageOnlyWithinRange ==
    [][ ( /\ Answered("get_zip_page_content")
          /\ resp'.id \in 1..Len(db)
          /\ db[resp'.id].mime_type = "application/zip" )
        => LET N == PageCount(resp'.id)
               i == resp'.page_index
           IN  IF i \in 0..(N - 1)
               THEN /\ resp'.status = 200
                    /\ Len(resp'.body) = 1
                    /\ resp'.body[1].name = SixDigits(i)
                    /\ resp'.body[1].dir = db[resp'.id].stored_name
               ELSE resp'.status = 404 ]_vars

\* index N of a document with N >= 1 pages has been asked for and answered 404
C7_Witness ==
    /\ resp.op = "get_zip_page_content"
    /\ resp.status = 404
    /\ resp.id \in 1..Len(db)
    /\ db[resp.id].mime_type = "application/zip"
    /\ PageCount(resp.id) >= 1
    /\ resp.page_index = PageCount(resp.id)

\* C8 as stated: list_zip_pages answers 404 when the document exists and is no ZIP
\* document, and when the document's page directory is absent.
C8_ListingNotFound ==
    [][ ( /\ Answered("list_zip_pages")
          /\ resp'.id \in 1..Len(db) )
        => ( ( \/ db[resp'.id].mime_type # "application/zip"
               \/ db[resp'.id].stored_name \notin dirs )
             => resp'.status = 404 ) ]_vars

\* C8 amended: list_zip_pages answers 400 when the document exists and is no ZIP
\* document, and 404 when it is a ZIP document whose page directory is absent.
C8_ListingWrongTypeOrNotFound ==
    [][ ( /\ Answered("list_zip_pages")
          /\ resp'.id \in 1..Len(db) )
        => /\ db[resp'.id].mime_type # "application/zip" => resp'.status = 400
           /\ ( /\ db[resp'.id].mime_type = "application/zip"
                /\ db[resp'.id].stored_name \notin dirs )
              => resp'.status = 404 ]_vars

\* the pages of a stored PDF or JPG document have been asked for
C8_Witness ==
    /\ resp.op = "list_zip_pages"
    /\ resp.id \in 1..Len(db)
    /\ db[resp.id].mime_type # "application/zip"
    /\ resp.status = 400

\* the content types the claim names
NamedTypes ==
    {"application/pdf", "image/jpeg", "application/zip", "application/x-zip-compressed",
     "multipart/x-zip"}

\* request r carries a content type outside the named ones
OtherType(r) == file[r] # NoFile /\ file[r].content_type \notin NamedTypes

\* C9 as stated: an upload with a content type outside the named ones is rejected
\* with 400 and stores nothing, whatever its file name.
C9_OtherTypesRejected ==
    \A r \in Requests :
        OtherType(r) => (pc[r] = "rejected" /\ response[r] = 400 /\ NothingStored(r))

\* C9 amended: an upload with a content type outside the named ones and a file name
\* that does not end, in any case, with .zip is rejected with 400 and stores nothing.
C9_OtherTypesRejectedUnlessZipName ==
    \A r \in Requests :
        (OtherType(r) /\ ~EndsWith(Lower(file[r].filename), DotZip))
            => (pc[r] = "rejected" /\ response[r] = 400 /\ NothingStored(r))

\* an upload of another type, with a name that is no .zip, has been rejected
C9_Witness ==
    \E r \in Requests :
        /\ OtherType(r)
        /\ ~EndsWith(Lower(file[r].filename), DotZip)
        /\ pc[r] = "rejected"

\* a row's stored name resolves to complete content
StoredComplete(doc) ==
    IF doc.mime_type = "application/zip"
    THEN /\ doc.stored_name \in dirs
         /\ doc.stored_name \notin DOMAIN files
         /\ LET written == PagesIn(doc.stored_name)
                N == Cardinality(written)
            IN  /\ N >= 1
                /\ { f.name : f \in written } = { SixDigits(i) : i \in 0..(N - 1) }
                /\ \A f \in written : f.data # 0
    ELSE /\ doc.stored_name \in DOMAIN files
         /\ files[doc.stored_name] = "full"
         /\ doc.stored_name \notin dirs

\* C10: under every interleaving of uploads and reads each row's stored name resolves
\* to one fully written file (PDF, JPG) or to one directory holding exactly the pages
\* 000000.jpg .. (N-1), N >= 1; rows do not share a stored name; and a read that
\* answers 200 has seen a complete directory.
C10_RowsResolveToCompleteContent ==
    /\ \A k \in 1..Len(db) : StoredComplete(db[k])
    /\ \A k \in 1..Len(db), m \in 1..Len(db) :
         k # m => db[k].stored_name # db[m].stored_name
    /\ (resp.op = "list_zip_pages" /\ resp.status = 200)
         => /\ Len(resp.body) = PageCount(resp.id)
            /\ \A k \in 1..Len(resp.body) :
                 /\ resp.body[k].index = k - 1
                 /\ resp.body[k].filename = SixDigits(k - 1)
    /\ (resp.op = "get_zip_page_content" /\ resp.status = 200)
         => resp.body[1].data # 0

\* a listing has been answered in full while another upload is in the middle of its
\* extraction, one page written
C10_Witness ==
    /\ resp.op = "list_zip_pages"
    /\ resp.status = 200
    /\ \E q \in Requests : pc[q] = "extract" /\ index[q] >= 1

====
